---- MODULE Spec2Model ----
\* A model of the NetFree relay service of src/main.py: the credential cache
\* and its refresher, the upstream fetcher, the response classifier, the
\* /playlist handler that orchestrates them and the source extraction of /hls.
\*
\* Two specifications: Spec is the service from its import on, in which every
\* call of make_request raises (the module never binds the name PROXIES);
\* SpecClassify is the function process_response applied to a body drawn from
\* a bounded set.
\*
\* Python values are modelled as tagged records [t |-> tag, v |-> value]:
\*   str  : v is the sequence of code points     bytes are plain sequences of 0..255
\*   int  : v is the integer                     bool : v is a BOOLEAN
\*   list : v is a sequence of values            dict : v is a function from keys
\*   None : v is 0                                      (code point sequences) to values
\*   float: v is the lexeme (code points) of the literal
EXTENDS Integers, Sequences, FiniteSets, TLC

\* ---------------------------------------------------------------------------
\* Python values
\* ---------------------------------------------------------------------------
PyNone == [t |-> "None", v |-> 0]
PyStr(s) == [t |-> "str", v |-> s]
PyInt(n) == [t |-> "int", v |-> n]
PyBool(b) == [t |-> "bool", v |-> b]
PyFloat(lex) == [t |-> "float", v |-> lex]
PyList(xs) == [t |-> "list", v |-> xs]
PyDict(f) == [t |-> "dict", v |-> f]

\* The absent value of an optional string field (Python None where a str may stand).
None == "<None>"

\* Python truthiness of an Optional[str]: None and '' are falsy.
Truthy(s) == s # None /\ s # ""

\* x in s for sequences: some window of s equals x (bytes/str containment).
Contains(s, x) ==
    \E i \in 0..(Len(s) - Len(x)) : SubSeq(s, i + 1, i + Len(x)) = x

\* bytes.startswith
StartsWith(s, p) ==
    Len(s) >= Len(p) /\ SubSeq(s, 1, Len(p)) = p

\* ---------------------------------------------------------------------------
\* Byte strings used as upstream bodies
\* ---------------------------------------------------------------------------
\* "404 Not Found"
MarkerNotFound ==
    <<52, 48, 52, 32, 78, 111, 116, 32, 70, 111, 117, 110, 100>>
\* "Access denied"
MarkerDenied ==
    <<65, 99, 99, 101, 115, 115, 32, 100, 101, 110, 105, 101, 100>>
\* b'Error: Access denied.'
BodyDenied ==
    <<69, 114, 114, 111, 114, 58, 32, 65, 99, 99, 101, 115, 115, 32, 100, 101, 110, 105, 101, 100, 46>>
\* b'<h1>404 Not Found</h1>'
BodyNotFound ==
    <<60, 104, 49, 62, 52, 48, 52, 32, 78, 111, 116, 32, 70, 111, 117, 110, 100, 60, 47, 104, 49, 62>>
\* b'Access denied / 404 Not Found'
BodyBoth ==
    <<65, 99, 99, 101, 115, 115, 32, 100, 101, 110, 105, 101, 100, 32, 47, 32, 52, 48, 52, 32, 78, 111, 116, 32, 70, 111, 117, 110, 100>>
\* b'ok'
BodyPlain ==
    <<111, 107>>
\* b'{"sources":[{"file":"/x.m3u8","label":"HD"}]}'
BodyJsonObj ==
    <<123, 34, 115, 111, 117, 114, 99, 101, 115, 34, 58, 91, 123, 34, 102, 105, 108, 101, 34, 58, 34, 47, 120, 46, 109, 51, 117, 56, 34, 44, 34, 108, 97, 98, 101, 108, 34, 58, 34, 72, 68, 34, 125, 93, 125>>
\* b'[{"a":1},{"a":2}]'
BodyJsonArr ==
    <<91, 123, 34, 97, 34, 58, 49, 125, 44, 123, 34, 97, 34, 58, 50, 125, 93>>
\* b'"Access denied"'  (a JSON string literal)
BodyJsonStr ==
    <<34, 65, 99, 99, 101, 115, 115, 32, 100, 101, 110, 105, 101, 100, 34>>
\* b'Access denied\x00\x01'
BodyBinary ==
    <<65, 99, 99, 101, 115, 115, 32, 100, 101, 110, 105, 101, 100, 0, 1>>
\* b'\xff\xfe404 Not Found'  (no sniff-set byte, not UTF-8)
BodyBadUtf8 ==
    <<255, 254, 52, 48, 52, 32, 78, 111, 116, 32, 70, 111, 117, 110, 100>>
BodyEmpty == <<>>
\* b'[[1],2]'
BodyNestedArr ==
    <<91, 91, 49, 93, 44, 50, 93>>
\* b'{"sources":[{"file":"/a"},{"file":"http:b"}]}'
BodySourcesTwo ==
    <<123, 34, 115, 111, 117, 114, 99, 101, 115, 34, 58, 91, 123, 34, 102, 105, 108, 101, 34, 58, 34, 47, 97, 34, 125, 44, 123, 34, 102, 105, 108, 101, 34, 58, 34, 104, 116, 116, 112, 58, 98, 34, 125, 93, 125>>
\* b'{"sources":[{"file":"a","type":"m"}]}'
BodySourcesType ==
    <<123, 34, 115, 111, 117, 114, 99, 101, 115, 34, 58, 91, 123, 34, 102, 105, 108, 101, 34, 58, 34, 97, 34, 44, 34, 116, 121, 112, 101, 34, 58, 34, 109, 34, 125, 93, 125>>
\* b'{"sources":[{"file":"a","default":true}]}'
BodySourcesDefault ==
    <<123, 34, 115, 111, 117, 114, 99, 101, 115, 34, 58, 91, 123, 34, 102, 105, 108, 101, 34, 58, 34, 97, 34, 44, 34, 100, 101, 102, 97, 117, 108, 116, 34, 58, 116, 114, 117, 101, 125, 93, 125>>
\* b'{"data":{"sources":[{"file":"/x.m3u8"}]}}'
BodyNested ==
    <<123, 34, 100, 97, 116, 97, 34, 58, 123, 34, 115, 111, 117, 114, 99, 101, 115, 34, 58, 91, 123, 34, 102, 105, 108, 101, 34, 58, 34, 47, 120, 46, 109, 51, 117, 56, 34, 125, 93, 125, 125>>
\* b'{"sources":[]}'
BodySourcesEmpty ==
    <<123, 34, 115, 111, 117, 114, 99, 101, 115, 34, 58, 91, 93, 125>>
\* b'{"title":"x"}'
BodyNoSources ==
    <<123, 34, 116, 105, 116, 108, 101, 34, 58, 34, 120, 34, 125>>
\* b'[{"sources":[{"file":"x"}]},{"sources":[]}]'
BodyArrSources ==
    <<91, 123, 34, 115, 111, 117, 114, 99, 101, 115, 34, 58, 91, 123, 34, 102, 105, 108, 101, 34, 58, 34, 120, 34, 125, 93, 125, 44, 123, 34, 115, 111, 117, 114, 99, 101, 115, 34, 58, 91, 93, 125, 93>>
\* b'{"sources":[{"label":"HD"}]}'
BodySourcesNoFile ==
    <<123, 34, 115, 111, 117, 114, 99, 101, 115, 34, 58, 91, 123, 34, 108, 97, 98, 101, 108, 34, 58, 34, 72, 68, 34, 125, 93, 125>>
\* b'{"sources":0.0}'
BodySourcesZero ==
    <<123, 34, 115, 111, 117, 114, 99, 101, 115, 34, 58, 48, 46, 48, 125>>
\* b'{"sources":1e-400}'
BodySourcesTiny ==
    <<123, 34, 115, 111, 117, 114, 99, 101, 115, 34, 58, 49, 101, 45, 52, 48, 48, 125>>
\* b'{"sources":Infinity}'
BodySourcesInf ==
    <<123, 34, 115, 111, 117, 114, 99, 101, 115, 34, 58, 73, 110, 102, 105, 110, 105, 116, 121, 125>>
\* b'{"sources":NaN}'
BodySourcesNaN ==
    <<123, 34, 115, 111, 117, 114, 99, 101, 115, 34, 58, 78, 97, 78, 125>>
\* b'{"sources":5}'
BodySourcesNumber ==
    <<123, 34, 115, 111, 117, 114, 99, 101, 115, 34, 58, 53, 125>>

\* ---------------------------------------------------------------------------
\* bytes.decode('utf-8'), strict
\* ---------------------------------------------------------------------------
IsCont(b) == b >= 128 /\ b <= 191

\* Number of bytes of the well-formed UTF-8 sequence starting at b[i], 0 if none.
Utf8Width(b, i) ==
    LET n == Len(b)
        b0 == b[i]
        b1 == IF i + 1 <= n THEN b[i + 1] ELSE 0
        b2 == IF i + 2 <= n THEN b[i + 2] ELSE 0
        b3 == IF i + 3 <= n THEN b[i + 3] ELSE 0
    IN  IF b0 < 128 THEN 1
        ELSE IF b0 >= 194 /\ b0 <= 223 THEN (IF IsCont(b1) THEN 2 ELSE 0)
        ELSE IF b0 = 224 THEN (IF b1 >= 160 /\ b1 <= 191 /\ IsCont(b2) THEN 3 ELSE 0)
        ELSE IF b0 = 237 THEN (IF b1 >= 128 /\ b1 <= 159 /\ IsCont(b2) THEN 3 ELSE 0)
        ELSE IF b0 >= 225 /\ b0 <= 239 THEN (IF IsCont(b1) /\ IsCont(b2) THEN 3 ELSE 0)
        ELSE IF b0 = 240 THEN (IF b1 >= 144 /\ b1 <= 191 /\ IsCont(b2) /\ IsCont(b3) THEN 4 ELSE 0)
        ELSE IF b0 >= 241 /\ b0 <= 243 THEN (IF IsCont(b1) /\ IsCont(b2) /\ IsCont(b3) THEN 4 ELSE 0)
        ELSE IF b0 = 244 THEN (IF b1 >= 128 /\ b1 <= 143 /\ IsCont(b2) /\ IsCont(b3) THEN 4 ELSE 0)
        ELSE 0

\* The code point encoded by the w bytes at b[i].
Utf8CodePoint(b, i, w) ==
    IF w = 1 THEN b[i]
    ELSE IF w = 2 THEN (b[i] - 192) * 64 + (b[i + 1] - 128)
    ELSE IF w = 3 THEN (b[i] - 224) * 4096 + (b[i + 1] - 128) * 64 + (b[i + 2] - 128)
    ELSE (b[i] - 240) * 262144 + (b[i + 1] - 128) * 4096 + (b[i + 2] - 128) * 64 + (b[i + 3] - 128)

RECURSIVE Utf8DecodeFrom(_, _, _)
Utf8DecodeFrom(b, i, acc) ==
    IF i > Len(b) THEN [ok |-> TRUE, str |-> acc]
    ELSE LET w == Utf8Width(b, i)
         IN  IF w = 0 THEN [ok |-> FALSE, str |-> <<>>]
             ELSE Utf8DecodeFrom(b, i + w, Append(acc, Utf8CodePoint(b, i, w)))

\* response_raw.decode('utf-8'): ok = FALSE stands for UnicodeDecodeError.
\* Bytes below 128 decode to themselves.
Utf8Decode(b) ==
    IF \A i \in 1..Len(b) : b[i] < 128 THEN [ok |-> TRUE, str |-> b]
    ELSE Utf8DecodeFrom(b, 1, <<>>)

\* ---------------------------------------------------------------------------
\* base64.b64encode(...).decode('utf-8')
\* ---------------------------------------------------------------------------
\* The character (code point) of a 6-bit value in the standard alphabet.
B64Char(n) ==
    IF n < 26 THEN 65 + n
    ELSE IF n < 52 THEN 97 + (n - 26)
    ELSE IF n < 62 THEN 48 + (n - 52)
    ELSE IF n = 62 THEN 43
    ELSE 47

RECURSIVE B64EncodeFrom(_, _)
B64EncodeFrom(b, i) ==
    LET rest == Len(b) - i + 1
    IN  IF rest <= 0 THEN <<>>
        ELSE IF rest = 1 THEN
            <<B64Char(b[i] \div 4), B64Char((b[i] % 4) * 16), 61, 61>>
        ELSE IF rest = 2 THEN
            <<B64Char(b[i] \div 4),
              B64Char((b[i] % 4) * 16 + (b[i + 1] \div 16)),
              B64Char((b[i + 1] % 16) * 4), 61>>
        ELSE
            <<B64Char(b[i] \div 4),
              B64Char((b[i] % 4) * 16 + (b[i + 1] \div 16)),
              B64Char((b[i + 1] % 16) * 4 + (b[i + 2] \div 64)),
              B64Char(b[i + 2] % 64)>> \o B64EncodeFrom(b, i + 3)

b64encode(b) == B64EncodeFrom(b, 1)

\* ---------------------------------------------------------------------------
\* Binary sniffing
\* ---------------------------------------------------------------------------
\* The character class [\x00-\x08\x0B\x0C\x0E-\x1F\x7F] of the sniff regex.
SniffSet == (0..8) \cup {11, 12} \cup (14..31) \cup {127}

HasSniffByte(b) == \E i \in 1..Len(b) : b[i] \in SniffSet

detect_binary_format(data) ==
    IF StartsWith(data, <<255, 216>>) THEN "image/jpeg"
    ELSE IF StartsWith(data, <<137, 80, 78, 71, 13, 10, 26, 10>>) THEN "image/png"
    ELSE IF StartsWith(data, <<71, 73, 70, 56, 55, 97>>)
            \/ StartsWith(data, <<71, 73, 70, 56, 57, 97>>) THEN "image/gif"
    ELSE IF StartsWith(data, <<0, 0, 0, 28, 102, 116, 121, 112>>) THEN "video/mp4"
    ELSE IF StartsWith(data, <<26, 69, 223, 163>>) THEN "video/webm"
    ELSE IF StartsWith(data, <<73, 68, 51>>)
            \/ StartsWith(data, <<255, 251>>)
            \/ StartsWith(data, <<255, 243>>) THEN "audio/mpeg"
    ELSE "application/octet-stream"

\* ---------------------------------------------------------------------------
\* json.loads on a str (a sequence of code points)
\* ---------------------------------------------------------------------------
\* A scan result: pos is the index of the first character after the value;
\* ok = FALSE stands for an exception of class exc. Fail is JSONDecodeError, the
\* only one the caller catches.
Fail == [ok |-> FALSE, val |-> PyNone, pos |-> 0, exc |-> "JSONDecodeError"]
Ok(v, p) == [ok |-> TRUE, val |-> v, pos |-> p, exc |-> None]
ScanRaises(exc) == [ok |-> FALSE, val |-> PyNone, pos |-> 0, exc |-> exc]

\* sys.get_int_max_str_digits(): int() of a longer run of digits raises
\* ValueError.
MaxStrDigits == 4300

\* The containers that can be open around a value: each '[' and '{' enters one
\* recursive call of the scanner, and RecursionError is raised when the
\* interpreter's limit (sys.getrecursionlimit() = 1000) is reached. The frames
\* already on the stack count against the limit, so the room json.loads has
\* is not fixed by the source: it is what the callers of process_response
\* leave. MaxNesting is the room when process_response is the first frame of a
\* thread (no frame under it); MinNesting is the room below which
\* process_response cannot make its own calls (logger.info of line 227 raises
\* RecursionError, whatever the argument).
MaxNesting == 995
MinNesting == 7
NestingRooms == 0..MaxNesting

\* s[i:i+1], -1 past the end.
At(s, i) == IF i >= 1 /\ i <= Len(s) THEN s[i] ELSE -1

Slice(s, i, n) == SubSeq(s, i, IF i + n - 1 <= Len(s) THEN i + n - 1 ELSE Len(s))

IsDigit(c) == c >= 48 /\ c <= 57

\* WHITESPACE.match: skip ' ', '\t', '\n', '\r'.
RECURSIVE SkipWs(_, _)
SkipWs(s, i) == IF At(s, i) \in {32, 9, 10, 13} THEN SkipWs(s, i + 1) ELSE i

\* End of the run of ASCII digits starting at i.
DigitsEnd(s, i) ==
    IF i > Len(s) THEN i
    ELSE IF \A k \in i..Len(s) : IsDigit(s[k]) THEN Len(s) + 1
    ELSE CHOOSE j \in i..Len(s) :
             ~IsDigit(s[j]) /\ \A k \in i..(j - 1) : IsDigit(s[k])

RECURSIVE DigitsValue(_, _, _, _)
DigitsValue(s, i, j, acc) ==
    IF i >= j THEN acc ELSE DigitsValue(s, i + 1, j, acc * 10 + (s[i] - 48))

HexVal(c) ==
    IF c >= 48 /\ c <= 57 THEN c - 48
    ELSE IF c >= 97 /\ c <= 102 THEN c - 87
    ELSE IF c >= 65 /\ c <= 70 THEN c - 55
    ELSE -1

\* _decode_uXXXX: the value of the four hex digits at s[i..i+3], -1 if malformed.
Hex4(s, i) ==
    LET h1 == HexVal(At(s, i))
        h2 == HexVal(At(s, i + 1))
        h3 == HexVal(At(s, i + 2))
        h4 == HexVal(At(s, i + 3))
    IN  IF h1 < 0 \/ h2 < 0 \/ h3 < 0 \/ h4 < 0 THEN -1
        ELSE h1 * 4096 + h2 * 256 + h3 * 16 + h4

\* BACKSLASH: the character of a one-letter escape, -1 if it is not one.
EscapeChar(e) ==
    IF e = 34 THEN 34
    ELSE IF e = 92 THEN 92
    ELSE IF e = 47 THEN 47
    ELSE IF e = 98 THEN 8
    ELSE IF e = 102 THEN 12
    ELSE IF e = 110 THEN 10
    ELSE IF e = 114 THEN 13
    ELSE IF e = 116 THEN 9
    ELSE -1

RECURSIVE ScanString(_, _, _)

\* The second half of a surrogate pair \uD8xx\uDCxx: u2 is the value of the
\* escape at i + 6, -1 if it is malformed.
ScanPair(s, i, acc, u, u2) ==
    IF u2 = -1 THEN Fail
    ELSE IF u2 >= 56320 /\ u2 <= 57343 THEN
        ScanString(s, i + 12, Append(acc, 65536 + (u - 55296) * 1024 + (u2 - 56320)))
    ELSE ScanString(s, i + 6, Append(acc, u))

\* A \uXXXX escape at i: u is the value of its digits, -1 if malformed.
ScanUnicode(s, i, acc, u) ==
    IF u = -1 THEN Fail
    ELSE IF u >= 55296 /\ u <= 56319 /\ At(s, i + 6) = 92 /\ At(s, i + 7) = 117 THEN
        ScanPair(s, i, acc, u, Hex4(s, i + 8))
    ELSE ScanString(s, i + 6, Append(acc, u))

\* A backslash at i followed by the character e.
ScanEscape(s, i, acc, e) ==
    IF e = 117 THEN ScanUnicode(s, i, acc, Hex4(s, i + 2))
    ELSE IF EscapeChar(e) # -1 THEN ScanString(s, i + 2, Append(acc, EscapeChar(e)))
    ELSE Fail

\* The character c at i inside a string.
ScanChar(s, i, acc, c) ==
    IF c = -1 THEN Fail
    ELSE IF c = 34 THEN Ok(PyStr(acc), i + 1)
    ELSE IF c < 32 THEN Fail
    ELSE IF c # 92 THEN ScanString(s, i + 1, Append(acc, c))
    ELSE ScanEscape(s, i, acc, At(s, i + 1))

\* scanstring (strict): i is the index after the opening quote; control
\* characters are rejected, escapes decoded.
ScanString(s, i, acc) == ScanChar(s, i, acc, At(s, i))

\* The end of the match: an int when neither fraction nor exponent matched,
\* and int() refuses more than MaxStrDigits digits.
NumberEnd(s, i, j, intEnd, expEnd) ==
    IF expEnd # intEnd THEN Ok(PyFloat(SubSeq(s, i, expEnd - 1)), expEnd)
    ELSE IF intEnd - j > MaxStrDigits THEN ScanRaises("ValueError")
    ELSE Ok(PyInt((IF j = i THEN 1 ELSE -1) * DigitsValue(s, j, intEnd, 0)), intEnd)

\* ([eE][-+]?[0-9]+)? : expDigits is where its digits must start, 0 without [eE].
NumberExp(s, i, j, intEnd, fracEnd, expDigits) ==
    NumberEnd(s, i, j, intEnd,
              IF expDigits # 0 /\ IsDigit(At(s, expDigits))
              THEN DigitsEnd(s, expDigits) ELSE fracEnd)

\* (\.[0-9]+)? has ended at fracEnd.
NumberFrac(s, i, j, intEnd, fracEnd) ==
    NumberExp(s, i, j, intEnd, fracEnd,
              IF At(s, fracEnd) \in {101, 69}
              THEN (IF At(s, fracEnd + 1) \in {43, 45} THEN fracEnd + 2 ELSE fracEnd + 1)
              ELSE 0)

\* (-?(?:0|[1-9][0-9]*)) has ended at intEnd, 0 if it did not match.
NumberInt(s, i, j, intEnd) ==
    IF intEnd = 0 THEN Fail
    ELSE NumberFrac(s, i, j, intEnd,
                    IF At(s, intEnd) = 46 /\ IsDigit(At(s, intEnd + 1))
                    THEN DigitsEnd(s, intEnd + 1) ELSE intEnd)

\* The digits of the integer part start at j.
NumberSign(s, i, j) ==
    NumberInt(s, i, j,
              IF At(s, j) = 48 THEN j + 1
              ELSE IF IsDigit(At(s, j)) THEN DigitsEnd(s, j)
              ELSE 0)

\* NUMBER_RE.match at i: (-?(?:0|[1-9][0-9]*))(\.[0-9]+)?([eE][-+]?[0-9]+)?
ScanNumber(s, i) == NumberSign(s, i, IF At(s, i) = 45 THEN i + 1 ELSE i)

\* dict[k] = v
DictPut(d, k, v) == [x \in (DOMAIN d) \cup {k} |-> IF x = k THEN v ELSE d[x]]

RECURSIVE ScanOnce(_, _, _), ScanElems(_, _, _, _), ScanMembers(_, _, _, _)

\* After an element and whitespace: ']' ends the array, ',' continues it.
ElemsSep(s, acc, j, depth) ==
    IF At(s, j) = 93 THEN Ok(PyList(acc), j + 1)
    ELSE IF At(s, j) = 44 THEN ScanElems(s, SkipWs(s, j + 1), acc, depth)
    ELSE Fail

\* r is the scan of an element: its exception leaves the array with it.
ElemsValue(s, acc, r, depth) ==
    IF ~r.ok THEN r
    ELSE ElemsSep(s, Append(acc, r.val), SkipWs(s, r.pos), depth)

\* JSONArray from the position of an element: values separated by ','.
ScanElems(s, i, acc, depth) == ElemsValue(s, acc, ScanOnce(s, i, depth), depth)

\* After ',' and whitespace the next key must open.
MembersNext(s, d, n, depth) ==
    IF At(s, n) = 34 THEN ScanMembers(s, n, d, depth) ELSE Fail

\* After a value and whitespace: '}' ends the object, ',' continues it.
MembersSep(s, d, j, depth) ==
    IF At(s, j) = 125 THEN Ok(PyDict(d), j + 1)
    ELSE IF At(s, j) = 44 THEN MembersNext(s, d, SkipWs(s, j + 1), depth)
    ELSE Fail

\* r is the scan of a member's value: its exception leaves the object with it.
MembersValue(s, d, key, r, depth) ==
    IF ~r.ok THEN r
    ELSE MembersSep(s, DictPut(d, key, r.val), SkipWs(s, r.pos), depth)

\* After a key and whitespace a ':' must stand at c.
MembersColon(s, d, key, c, depth) ==
    IF At(s, c) # 58 THEN Fail
    ELSE MembersValue(s, d, key, ScanOnce(s, SkipWs(s, c + 1), depth), depth)

MembersKey(s, d, k, depth) ==
    IF ~k.ok THEN k
    ELSE MembersColon(s, d, k.val.v, SkipWs(s, k.pos), depth)

\* JSONObject from the opening quote of a key at i; a repeated key keeps the
\* last value.
ScanMembers(s, i, d, depth) == MembersKey(s, d, ScanString(s, i + 1, <<>>), depth)

\* '{' was read; j is the position after the whitespace that follows it.
ObjectOpen(s, j, depth) ==
    IF At(s, j) = 125 THEN Ok(PyDict(<<>>), j + 1)
    ELSE IF At(s, j) = 34 THEN ScanMembers(s, j, <<>>, depth)
    ELSE Fail

\* '[' was read; j is the position after the whitespace that follows it.
ArrayOpen(s, j, depth) ==
    IF At(s, j) = 93 THEN Ok(PyList(<<>>), j + 1)
    ELSE ScanElems(s, j, <<>>, depth)

\* Neither string, object, array nor literal at i: num is the number match, an
\* int, a float, the ValueError of int() or no match.
NumberOrConstant(s, i, c, num) ==
    IF num.ok \/ num.exc # "JSONDecodeError" THEN num
    ELSE IF c = 78 /\ Slice(s, i, 3) = <<78, 97, 78>> THEN Ok(PyFloat(Slice(s, i, 3)), i + 3)
    ELSE IF c = 73 /\ Slice(s, i, 8) = <<73, 110, 102, 105, 110, 105, 116, 121>>
        THEN Ok(PyFloat(Slice(s, i, 8)), i + 8)
    ELSE IF c = 45 /\ Slice(s, i, 9) = <<45, 73, 110, 102, 105, 110, 105, 116, 121>>
        THEN Ok(PyFloat(Slice(s, i, 9)), i + 9)
    ELSE Fail

\* A '{' or '[' at i, depth levels of the stack being used up (by the callers
\* and by the containers open around i): the scanner enters a recursive call
\* before it reads the container.
ScanContainer(s, i, c, depth) ==
    IF depth >= MaxNesting THEN ScanRaises("RecursionError")
    ELSE IF c = 123 THEN ObjectOpen(s, SkipWs(s, i + 1), depth + 1)
    ELSE ArrayOpen(s, SkipWs(s, i + 1), depth + 1)

\* The value that starts with the character c at i.
ScanValue(s, i, c, depth) ==
    IF c = -1 THEN Fail
    ELSE IF c = 34 THEN ScanString(s, i + 1, <<>>)
    ELSE IF c \in {123, 91} THEN ScanContainer(s, i, c, depth)
    ELSE IF c = 110 /\ Slice(s, i, 4) = <<110, 117, 108, 108>> THEN Ok(PyNone, i + 4)
    ELSE IF c = 116 /\ Slice(s, i, 4) = <<116, 114, 117, 101>> THEN Ok(PyBool(TRUE), i + 4)
    ELSE IF c = 102 /\ Slice(s, i, 5) = <<102, 97, 108, 115, 101>> THEN Ok(PyBool(FALSE), i + 5)
    ELSE NumberOrConstant(s, i, c, ScanNumber(s, i))

\* scan_once: the value starting exactly at i, depth levels being used up.
ScanOnce(s, i, depth) == ScanValue(s, i, At(s, i), depth)

\* The value r was scanned: anything but whitespace after it is "Extra data".
LoadsEnd(s, r) ==
    IF ~r.ok THEN r
    ELSE IF SkipWs(s, r.pos) = Len(s) + 1 THEN r
    ELSE Fail

\* json.loads(s) called where the stack leaves room for `room` nested
\* containers: a leading BOM is rejected, surrounding whitespace is skipped.
\* The result is the value, JSONDecodeError (Fail), or the ValueError or
\* RecursionError the scanner raised.
json_loads(s, room) ==
    IF At(s, 1) = 65279 THEN Fail
    ELSE LoadsEnd(s, ScanOnce(s, SkipWs(s, 1), MaxNesting - room))

\* ---------------------------------------------------------------------------
\* Response Classifier
\* ---------------------------------------------------------------------------
PyBytes(b) == [t |-> "bytes", v |-> b]

\* process_response did not return: the exception exc left it.
ProcessRaises(exc) == [type |-> "exception", data |-> PyNone, exc |-> exc]

\* Lines 257-269: decoded is the result of json.loads(response_str). Line 264
\* catches JSONDecodeError and TypeError only; any other exception of
\* json.loads leaves process_response.
classify_text(response_str, decoded) ==
    IF decoded.ok THEN [type |-> "json", data |-> decoded.val]
    ELSE IF decoded.exc \in {"JSONDecodeError", "TypeError"}
    THEN [type |-> "text", data |-> PyStr(response_str)]
    ELSE ProcessRaises(decoded.exc)

\* Lines 242-269: dec is the result of response_raw.decode('utf-8').
classify_decoded(raw, dec, room) ==
    IF ~dec.ok THEN
        [type |-> "binary",
         format |-> "application/octet-stream",
         data |-> PyStr(b64encode(raw))]
    ELSE classify_text(dec.str, json_loads(dec.str, room))

\* process_response(response_raw): response_raw is None or bytes, room is the
\* nesting the stack leaves json.loads. The result is the dict returned, or
\* ProcessRaises when the stack was too short for the function's own calls or
\* json.loads raised past line 264.
process_response(response_raw, room) ==
    IF room < MinNesting THEN ProcessRaises("RecursionError")
    ELSE IF response_raw.t = "None" \/ Len(response_raw.v) = 0 THEN
        [type |-> "text", data |-> PyStr(<<>>)]
    ELSE IF HasSniffByte(response_raw.v) THEN
        [type |-> "binary",
         format |-> detect_binary_format(response_raw.v),
         data |-> PyStr(b64encode(response_raw.v))]
    ELSE classify_decoded(response_raw.v, Utf8Decode(response_raw.v), room)

\* The number of '[' and '{' in the body: it cannot nest deeper.
Brackets(response_raw) ==
    IF response_raw.t = "None" THEN 0
    ELSE Cardinality({i \in 1..Len(response_raw.v) : response_raw.v[i] \in {91, 123}})

\* The rooms of NestingRooms from least to most that process_response can tell
\* apart on the body: a room of more than the body's brackets is never used
\* up, so the largest stands for all of them.
RoomsOf(response_raw, least, most) ==
    {room \in NestingRooms \cap (least..most) : room < MinNesting}
        \cup (NestingRooms \cap (least..most) \cap (MinNesting..Brackets(response_raw)))
        \cup {most}

\* ---------------------------------------------------------------------------
\* Credential Cache and Refresher
\* ---------------------------------------------------------------------------
\* COOKIES_CACHE['default'] as written in the source.
DefaultCookie ==
    "user_token=c4e606ec3f66b93e8198a48c8c71e6b8; t_hash_t=4184321d319f63c93cff4c7588764623%3A%3A14b66f534e8c2fa68723668dead845ce%3A%3A1746367568%3A%3Ani; recentplay=81688854; 81688854=95%3A7065"

\* What the homepage visit of a refresh can do: answer with a status and leave
\* cookies in the session's jar, or raise.
HomeResponse(status, cookies) ==
    [kind |-> "response", status |-> status, cookies |-> cookies]
HomeRaises(kind) ==
    [kind |-> kind, status |-> 0, cookies |-> <<>>]

HomeBehaviours ==
    { HomeResponse(200, <<>>),
      HomeResponse(200, << <<"sid", "a">> >>),
      HomeResponse(200, << <<"sid", "b">>, <<"t", "1">> >>),
      HomeResponse(204, << <<"sid", "c">> >>),
      HomeResponse(403, << <<"sid", "d">> >>),
      HomeRaises("ReadTimeout"),
      HomeRaises("ConnectionError") }

\* '; '.join([f'{k}={v}' for k, v in cookie_dict.items()])
RECURSIVE JoinCookies(_)
JoinCookies(cookies) ==
    IF Len(cookies) = 0 THEN ""
    ELSE IF Len(cookies) = 1 THEN cookies[1][1] \o "=" \o cookies[1][2]
    ELSE cookies[1][1] \o "=" \o cookies[1][2] \o "; " \o JoinCookies(Tail(cookies))

\* get_fresh_cookies with the status test loosened to any 2xx.
get_fresh_cookies_any_2xx(cache, home) ==
    IF home.kind = "response" /\ home.status >= 200 /\ home.status < 300 THEN
        [cache |-> [k \in (DOMAIN cache) \cup {"latest"} |->
                       IF k = "latest" THEN JoinCookies(home.cookies) ELSE cache[k]],
         ret |-> JoinCookies(home.cookies),
         raised |-> FALSE]
    ELSE [cache |-> cache, ret |-> cache["default"], raised |-> FALSE]

\* get_fresh_cookies storing its fallback into `latest` on the failure paths.
get_fresh_cookies_failure_writes(cache, home) ==
    IF home.kind = "response" /\ home.status = 200 THEN
        [cache |-> [k \in (DOMAIN cache) \cup {"latest"} |->
                       IF k = "latest" THEN JoinCookies(home.cookies) ELSE cache[k]],
         ret |-> JoinCookies(home.cookies),
         raised |-> FALSE]
    ELSE [cache |-> [k \in (DOMAIN cache) \cup {"latest"} |->
                       IF k = "latest" THEN cache["default"] ELSE cache[k]],
          ret |-> cache["default"], raised |-> FALSE]

\* get_fresh_cookies adding its string to the one `latest` already holds.
get_fresh_cookies_appends(cache, home) ==
    IF home.kind = "response" /\ home.status = 200 THEN
        [cache |-> [k \in (DOMAIN cache) \cup {"latest"} |->
                       IF k # "latest" THEN cache[k]
                       ELSE IF "latest" \in DOMAIN cache
                       THEN cache["latest"] \o "; " \o JoinCookies(home.cookies)
                       ELSE JoinCookies(home.cookies)],
         ret |-> JoinCookies(home.cookies),
         raised |-> FALSE]
    ELSE [cache |-> cache, ret |-> cache["default"], raised |-> FALSE]

\* get_fresh_cookies(): the cache after the call and the string it returns.
\* Every exception of the homepage visit is caught by the handler of line 128.
get_fresh_cookies(cache, home) ==
    IF home.kind = "response" THEN
        IF home.status = 200 THEN
            LET cookie_string == JoinCookies(home.cookies)
            IN  [cache |-> [k \in (DOMAIN cache) \cup {"latest"} |->
                               IF k = "latest" THEN cookie_string ELSE cache[k]],
                 ret |-> cookie_string,
                 raised |-> FALSE]
        ELSE [cache |-> cache, ret |-> cache["default"], raised |-> FALSE]
    ELSE [cache |-> cache, ret |-> cache["default"], raised |-> FALSE]

\* ---------------------------------------------------------------------------
\* Identity Rotator and Upstream Fetcher
\* ---------------------------------------------------------------------------
\* The list bound to the module-level name ROXIES.
ROXIES ==
    << "http://40.76.69.94:8080", "http://88.99.209.189:1234",
       "http://67.43.228.251:21621", "http://8.219.97.248:80",
       "http://119.156.195.173:3128", "http://34.102.48.89:8080",
       "http://45.140.143.77:18080", "http://3.110.60.103:80",
       "http://200.174.198.86:8888", "http://34.143.143.61:7777",
       "http://72.10.160.173:11025", "http://91.243.226.71:8080",
       "http://44.220.205.79:8080" >>

\* The binding of a module-level name: bound says whether the module binds
\* it, value is the list it is bound to. Unbound is a name nothing binds.
Unbound == [bound |-> FALSE, value |-> <<>>]

\* get_random_proxy(): random.choice(PROXIES). Looking up the global name
\* PROXIES raises NameError when the module does not bind it; pick is the
\* index random.choice draws.
get_random_proxy(proxies, pick) ==
    IF ~proxies.bound THEN [raised |-> TRUE, exc |-> "NameError", proxy |-> None]
    ELSE IF Len(proxies.value) = 0 THEN [raised |-> TRUE, exc |-> "IndexError", proxy |-> None]
    ELSE [raised |-> FALSE, exc |-> None,
          proxy |-> proxies.value[((pick - 1) % Len(proxies.value)) + 1]]

\* The Cookie header literal of line 171.
RequestCookie ==
    "user_token=c4e606ec3f66b93e8198a48c8c71e6b8; t_hash_t=4184321d319f63c93cff4c7588764623%3A%3A14b66f534e8c2fa68723668dead845ce%3A%3A1746367568%3A%3Ani; recentplay=81688854; 81688854=95%3A7065"

\* What requests.get on the playlist URL can do: answer, or raise an exception
\* of a class of requests.exceptions (or any other Exception) with a message.
UpResponse(status, content) ==
    [kind |-> "response", status |-> status, content |-> content, msg |-> ""]
UpRaises(kind, msg) ==
    [kind |-> kind, status |-> 0, content |-> <<>>, msg |-> msg]

\* Exception classes caught by `except requests.exceptions.Timeout`: the class
\* itself and its subclasses; ConnectTimeout derives from both ConnectionError
\* and Timeout.
IsTimeout(kind) == kind \in {"Timeout", "ReadTimeout", "ConnectTimeout"}
\* Exception classes caught by `except requests.exceptions.ConnectionError`.
IsConnectionError(kind) == kind \in {"ConnectionError", "ConnectTimeout", "ProxyError", "SSLError"}

\* The result of a call that returned: the dict of lines 179-204.
Outcome(http_code, response, error) ==
    [http_code |-> http_code, response |-> response, error |-> error]
NoOutcome == Outcome(-1, PyNone, None)

\* Lines 176-204: the dict make_request returns when requests.get did up. The
\* except clauses are tried in order, Timeout before ConnectionError.
result_of(up) ==
    IF up.kind = "response" THEN Outcome(up.status, PyBytes(up.content), None)
    ELSE IF IsTimeout(up.kind) THEN Outcome(408, PyNone, "Request timed out")
    ELSE IF IsConnectionError(up.kind) THEN
        Outcome(503, PyNone, "Connection error: " \o up.msg)
    ELSE Outcome(0, PyNone, up.msg)

\* make_request(id, t, tm, use_fresh_cookies): the headers are built first
\* (lines 155-171), then the proxy is chosen before the try block, so an
\* exception of get_random_proxy propagates to the caller and no GET is issued.
\* gets is the number of HTTP GETs performed, cookie the Cookie entry of the
\* headers built (None when line 170 does not set it).
make_request(use_fresh_cookies, proxies, pick, up) ==
    LET cookie == IF ~use_fresh_cookies THEN RequestCookie ELSE None
        chosen == get_random_proxy(proxies, pick)
    IN  IF chosen.raised THEN
            [raised |-> TRUE, exc |-> chosen.exc, out |-> NoOutcome,
             gets |-> 0, cookie |-> cookie, proxy |-> None]
        ELSE
            [raised |-> FALSE, exc |-> None, out |-> result_of(up),
             gets |-> 1, cookie |-> cookie, proxy |-> chosen.proxy]

UpBehaviours ==
    { UpResponse(200, BodyJsonObj), UpResponse(200, BodyJsonArr),
      UpResponse(200, BodyJsonStr), UpResponse(200, BodyPlain),
      UpResponse(200, BodyDenied), UpResponse(200, BodyNotFound),
      UpResponse(200, BodyBoth), UpResponse(200, BodyBinary),
      UpResponse(200, BodyBadUtf8), UpResponse(200, BodyEmpty),
      UpResponse(200, BodyNestedArr), UpResponse(200, BodySourcesTwo),
      UpResponse(200, BodySourcesEmpty), UpResponse(200, BodyNoSources),
      UpResponse(200, BodyNested),
      UpResponse(204, BodyEmpty), UpResponse(304, BodyEmpty),
      UpResponse(400, BodyPlain), UpResponse(403, BodyDenied),
      UpResponse(404, BodyNotFound), UpResponse(500, BodyJsonObj),
      UpRaises("Timeout", "timed out"),
      UpRaises("ReadTimeout", "read timed out"),
      UpRaises("ConnectTimeout", "connect timed out"),
      UpRaises("ConnectionError", "refused"),
      UpRaises("Exception", "boom"),
      UpRaises("Exception", "") }

\* ---------------------------------------------------------------------------
\* /playlist: classification, reduction, reclassification, envelope
\* ---------------------------------------------------------------------------
\* Lines 315-317: a non-empty JSON array is replaced by its first element.
reduce_first(processed_data) ==
    IF processed_data.type = "json"
       /\ processed_data.data.t = "list"
       /\ Len(processed_data.data.v) > 0
    THEN [processed_data EXCEPT !.data = processed_data.data.v[1]]
    ELSE processed_data

\* Lines 319-325: an HTTP 200 text body with a failure marker is remapped.
reclassify(http_code, error_message, processed_data) ==
    IF http_code = 200 /\ processed_data.type = "text" THEN
        IF Contains(processed_data.data.v, MarkerNotFound) THEN
            [http_code |-> 404, error_message |-> "Resource not found on netfree2.cc"]
        ELSE IF Contains(processed_data.data.v, MarkerDenied) THEN
            [http_code |-> 403, error_message |-> "Access denied - authentication required"]
        ELSE [http_code |-> http_code, error_message |-> error_message]
    ELSE [http_code |-> http_code, error_message |-> error_message]

\* Lines 327-334.
success_of(http_code, error_message) ==
    http_code >= 200 /\ http_code < 300 /\ ~Truthy(error_message)

\* Lines 327-334: rc holds http_code and error_message after reclassification.
envelope(rc, processed_data) ==
    [status |-> [code |-> rc.http_code,
                 success |-> success_of(rc.http_code, rc.error_message),
                 error |-> rc.error_message],
     data |-> processed_data]

\* Lines 319-334 on the reduced payload.
reclassified(http_code, error_message, processed_data) ==
    envelope(reclassify(http_code, error_message, processed_data), processed_data)

\* Lines 314-337: the envelope built from the locals in hand when
\* process_response returns.
api_response(response_raw, http_code, error_message, room) ==
    reclassified(http_code, error_message,
                 reduce_first(process_response(response_raw, room)))

\* The handler's locals response_raw, http_code and error_message.
Locals(response_raw, http_code, error_message) ==
    [response_raw |-> response_raw, http_code |-> http_code,
     error_message |-> error_message]
NoLocals == Locals(PyNone, -1, None)

\* Lines 301-303 and 310-312: the three locals are (re)assigned from the
\* result of the make_request just made; old holds their previous values.
assign_locals(old, request_result) ==
    Locals(request_result.response, request_result.http_code, request_result.error)

\* needs_warmup without the look at the cache.
needs_warmup_whenever_fresh(fresh, cache) ==
    fresh

\* Line 297: the cache is warmed before the first fetch when fresh credentials
\* are asked for and no `latest` is cached.
needs_warmup(fresh, cache) ==
    fresh /\ "latest" \notin DOMAIN cache

\* Line 306: the retry decision after the first fetch.
should_retry(http_code, error_message, fresh) ==
    (http_code >= 400 \/ Truthy(error_message)) /\ fresh

\* ---------------------------------------------------------------------------
\* /hls: source extraction (get_hls_url, lines 358-390)
\* ---------------------------------------------------------------------------
\* The str literals of get_hls_url, as code points.
KeySources == <<115, 111, 117, 114, 99, 101, 115>>
KeyFile == <<102, 105, 108, 101>>
KeyLabel == <<108, 97, 98, 101, 108>>
KeyType == <<116, 121, 112, 101>>
KeyData == <<100, 97, 116, 97>>
KeyDefault == <<100, 101, 102, 97, 117, 108, 116>>
Unknown == <<85, 110, 107, 110, 111, 119, 110>>
Http == <<104, 116, 116, 112>>
Origin == <<104, 116, 116, 112, 115, 58, 47, 47, 110, 101, 116, 102, 114, 101, 101, 50, 46, 99, 99>>

\* The significant digits of 2^-1075 = 2.4703...e-324, half the smallest
\* subnormal double: float() rounds a literal to 0.0 exactly when its magnitude
\* is at most this (a tie goes to the even mantissa, zero).
HalfMinSubnormal ==
    <<50, 52, 55, 48, 51, 50, 56, 50, 50, 57, 50, 48, 54, 50, 51, 50, 55, 50, 48, 56, 56, 50, 56, 52,
       51, 57, 54, 52, 51, 52, 49, 49, 48, 54, 56, 54, 49, 56, 50, 53, 50, 57, 57, 48, 49, 51, 48, 55,
       49, 54, 50, 51, 56, 50, 50, 49, 50, 55, 57, 50, 56, 52, 49, 50, 53, 48, 51, 51, 55, 55, 53, 51,
       54, 51, 53, 49, 48, 52, 51, 55, 53, 57, 51, 50, 54, 52, 57, 57, 49, 56, 49, 56, 48, 56, 49, 55,
       57, 57, 54, 49, 56, 57, 56, 57, 56, 50, 56, 50, 51, 52, 55, 55, 50, 50, 56, 53, 56, 56, 54, 53,
       52, 54, 51, 51, 50, 56, 51, 53, 53, 49, 55, 55, 57, 54, 57, 56, 57, 56, 49, 57, 57, 51, 56, 55,
       51, 57, 56, 48, 48, 53, 51, 57, 48, 57, 51, 57, 48, 54, 51, 49, 53, 48, 51, 53, 54, 53, 57, 53,
       49, 53, 53, 55, 48, 50, 50, 54, 51, 57, 50, 50, 57, 48, 56, 53, 56, 51, 57, 50, 52, 52, 57, 49,
       48, 53, 49, 56, 52, 52, 51, 53, 57, 51, 49, 56, 48, 50, 56, 52, 57, 57, 51, 54, 53, 51, 54, 49,
       53, 50, 53, 48, 48, 51, 49, 57, 51, 55, 48, 52, 53, 55, 54, 55, 56, 50, 52, 57, 50, 49, 57, 51,
       54, 53, 54, 50, 51, 54, 54, 57, 56, 54, 51, 54, 53, 56, 52, 56, 48, 55, 53, 55, 48, 48, 49, 53,
       56, 53, 55, 54, 57, 50, 54, 57, 57, 48, 51, 55, 48, 54, 51, 49, 49, 57, 50, 56, 50, 55, 57, 53,
       53, 56, 53, 53, 49, 51, 51, 50, 57, 50, 55, 56, 51, 52, 51, 51, 56, 52, 48, 57, 51, 53, 49, 57,
       55, 56, 48, 49, 53, 53, 51, 49, 50, 52, 54, 53, 57, 55, 50, 54, 51, 53, 55, 57, 53, 55, 52, 54,
       50, 50, 55, 54, 54, 52, 54, 53, 50, 55, 50, 56, 50, 55, 50, 50, 48, 48, 53, 54, 51, 55, 52, 48,
       48, 54, 52, 56, 53, 52, 57, 57, 57, 55, 55, 48, 57, 54, 53, 57, 57, 52, 55, 48, 52, 53, 52, 48,
       50, 48, 56, 50, 56, 49, 54, 54, 50, 50, 54, 50, 51, 55, 56, 53, 55, 51, 57, 51, 52, 53, 48, 55,
       51, 54, 51, 51, 57, 48, 48, 55, 57, 54, 55, 55, 54, 49, 57, 51, 48, 53, 55, 55, 53, 48, 54, 55,
       52, 48, 49, 55, 54, 51, 50, 52, 54, 55, 51, 54, 48, 48, 57, 54, 56, 57, 53, 49, 51, 52, 48, 53,
       51, 53, 53, 51, 55, 52, 53, 56, 53, 49, 54, 54, 54, 49, 49, 51, 52, 50, 50, 51, 55, 54, 54, 54,
       55, 56, 54, 48, 52, 49, 54, 50, 49, 53, 57, 54, 56, 48, 52, 54, 49, 57, 49, 52, 52, 54, 55, 50,
       57, 49, 56, 52, 48, 51, 48, 48, 53, 51, 48, 48, 53, 55, 53, 51, 48, 56, 52, 57, 48, 52, 56, 55,
       54, 53, 51, 57, 49, 55, 49, 49, 51, 56, 54, 53, 57, 49, 54, 52, 54, 50, 51, 57, 53, 50, 52, 57,
       49, 50, 54, 50, 51, 54, 53, 51, 56, 56, 49, 56, 55, 57, 54, 51, 54, 50, 51, 57, 51, 55, 51, 50,
       56, 48, 52, 50, 51, 56, 57, 49, 48, 49, 56, 54, 55, 50, 51, 52, 56, 52, 57, 55, 54, 54, 56, 50,
       51, 53, 48, 56, 57, 56, 54, 51, 51, 56, 56, 53, 56, 55, 57, 50, 53, 54, 50, 56, 51, 48, 50, 55,
       53, 53, 57, 57, 53, 54, 53, 55, 53, 50, 52, 52, 53, 53, 53, 48, 55, 50, 53, 53, 49, 56, 57, 51,
       49, 51, 54, 57, 48, 56, 51, 54, 50, 53, 52, 55, 55, 57, 49, 56, 54, 57, 52, 56, 54, 54, 55, 57,
       57, 52, 57, 54, 56, 51, 50, 52, 48, 52, 57, 55, 48, 53, 56, 50, 49, 48, 50, 56, 53, 49, 51, 49,
       56, 53, 52, 53, 49, 51, 57, 54, 50, 49, 51, 56, 51, 55, 55, 50, 50, 56, 50, 54, 49, 52, 53, 52,
       51, 55, 54, 57, 51, 52, 49, 50, 53, 51, 50, 48, 57, 56, 53, 57, 49, 51, 50, 55, 54, 54, 55, 50,
       51, 54, 51, 50, 56, 49, 50, 53 >>

\* The i-th digit of a digit string continued with zeros.
DigitAt(digits, i) == IF i <= Len(digits) THEN digits[i] ELSE 48

\* a <= b for two digit strings read as decimal fractions 0.d1d2d3...
LeqDigits(a, b) ==
    ~\E i \in 1..(Len(a) + Len(b)) :
        /\ DigitAt(a, i) > DigitAt(b, i)
        /\ \A j \in 1..(i - 1) : DigitAt(a, j) = DigitAt(b, j)

\* The index of the first digit of digits that is not '0', 0 if all are.
FirstNonZero(digits) ==
    IF \A i \in 1..Len(digits) : digits[i] = 48 THEN 0
    ELSE CHOOSE i \in 1..Len(digits) :
             digits[i] # 48 /\ \A j \in 1..(i - 1) : digits[j] = 48

\* The decimal digits of the natural number n, none for 0.
RECURSIVE NatDigits(_)
NatDigits(n) ==
    IF n = 0 THEN <<>> ELSE Append(NatDigits(n \div 10), 48 + (n % 10))

\* -1, 0 or 1 as the natural number written a (no leading zeros, none for 0) is
\* below, equal to or above the one written b: the longer is the larger, and of
\* two of one length the one with the larger digit where they first differ.
CompareDigits(a, b) ==
    IF Len(a) # Len(b) THEN (IF Len(a) < Len(b) THEN -1 ELSE 1)
    ELSE IF a = b THEN 0
    ELSE IF \E i \in 1..Len(a) : a[i] < b[i] /\ \A j \in 1..(i - 1) : a[j] = b[j]
    THEN -1
    ELSE 1

\* The exponent's digits lex[i..] without their leading zeros: an exponent may
\* have any number of digits, so it is compared digit by digit, never computed.
ExponentOf(lex, i) ==
    IF FirstNonZero(SubSeq(lex, i, Len(lex))) = 0 THEN <<>>
    ELSE SubSeq(lex, i + FirstNonZero(SubSeq(lex, i, Len(lex))) - 1, Len(lex))

\* -1, 0 or 1 as the exponent of sign sgn and digits mag is below, equal to or
\* above the integer t.
CompareExponent(sgn, mag, t) ==
    IF sgn >= 0 THEN (IF t < 0 THEN 1 ELSE CompareDigits(mag, NatDigits(t)))
    ELSE IF t > 0 THEN -1
    ELSE 0 - CompareDigits(mag, NatDigits(0 - t))

\* The signed exponent after the mantissa that ends before e (0 without one)
\* against the integer t.
SignedExponent(lex, e, t) ==
    IF At(lex, e) \notin {69, 101} THEN CompareExponent(1, <<>>, t)
    ELSE IF At(lex, e + 1) = 45 THEN CompareExponent(-1, ExponentOf(lex, e + 2), t)
    ELSE IF At(lex, e + 1) = 43 THEN CompareExponent(1, ExponentOf(lex, e + 2), t)
    ELSE CompareExponent(1, ExponentOf(lex, e + 1), t)

\* digits are the mantissa's digits with the point removed and k the first that
\* is not '0'; with intLen of them before the point and the exponent exp the
\* literal is d.ddd * 10^(intLen - k + exp), and cmp tells whether that power
\* is below, equal to or above -324.
MantissaIsZero(digits, k, cmp) ==
    IF k = 0 THEN TRUE
    ELSE IF cmp # 0 THEN cmp < 0
    ELSE LeqDigits(SubSeq(digits, k, Len(digits)), HalfMinSubnormal)

\* The mantissa's digits, the number of them before the point, the first that
\* is not '0' and the end of the mantissa.
FloatDigits(lex, digits, intLen, k, fracEnd) ==
    MantissaIsZero(digits, k, SignedExponent(lex, fracEnd, 0 - 324 - (intLen - k)))

\* The literal's integer part is lex[start..intEnd-1], its fraction ends
\* before fracEnd.
FloatParts(lex, start, intEnd, fracEnd) ==
    FloatDigits(lex,
                SubSeq(lex, start, intEnd - 1) \o SubSeq(lex, intEnd + 1, fracEnd - 1),
                intEnd - start,
                FirstNonZero(SubSeq(lex, start, intEnd - 1)
                             \o SubSeq(lex, intEnd + 1, fracEnd - 1)),
                fracEnd)

FloatFrom(lex, start, intEnd) ==
    FloatParts(lex, start, intEnd,
               IF At(lex, intEnd) = 46 THEN DigitsEnd(lex, intEnd + 1) ELSE intEnd)

\* float(lex) == 0.0 for the lexeme of a JSON float: NaN, Infinity and -Infinity
\* are not zero; a number is zero when its digits are or when it is too small
\* for a double (1e-400 is 0.0, -1e-400 is -0.0).
FloatIsZero(lex) ==
    IF ~IsDigit(At(lex, IF At(lex, 1) = 45 THEN 2 ELSE 1)) THEN FALSE
    ELSE FloatFrom(lex, IF At(lex, 1) = 45 THEN 2 ELSE 1,
                   DigitsEnd(lex, IF At(lex, 1) = 45 THEN 2 ELSE 1))

\* `not v` for a Python value.
Falsy(v) ==
    IF v.t = "None" THEN TRUE
    ELSE IF v.t = "bool" THEN ~v.v
    ELSE IF v.t = "int" THEN v.v = 0
    ELSE IF v.t = "float" THEN FloatIsZero(v.v)
    ELSE IF v.t \in {"str", "list"} THEN Len(v.v) = 0
    ELSE DOMAIN v.v = {}

\* d.get(key, default) on a dict value.
DictGet(d, key, default) ==
    IF key \in DOMAIN d.v THEN d.v[key] ELSE default

\* How get_hls_url ends: it returns hls_urls, raises HTTPException, or another
\* exception leaves it.
HlsReturn(hls_urls) ==
    [kind |-> "return", hls_urls |-> hls_urls, status_code |-> 200, detail |-> None, exc |-> None]
HlsHTTPException(status_code, detail) ==
    [kind |-> "HTTPException", hls_urls |-> <<>>, status_code |-> status_code,
     detail |-> detail, exc |-> None]
HlsRaises(exc) ==
    [kind |-> "exception", hls_urls |-> <<>>, status_code |-> 500, detail |-> None, exc |-> exc]
NoHls ==
    [kind |-> "none", hls_urls |-> <<>>, status_code |-> -1, detail |-> None, exc |-> None]

\* Lines 368-375: data is response['data'], the dict built by process_response
\* (keys type, data and, for binary, format).
find_sources(data) ==
    IF data.type = "json" /\ data.data.t = "dict" THEN
        DictGet(data.data, KeySources, PyNone)
    ELSE IF "sources" \in DOMAIN data THEN data.sources
    ELSE PyNone

\* The url of line 384 for the str file.
hls_url(file) ==
    IF ~StartsWith(file, Http) THEN Origin \o file ELSE file

\* The dict of lines 382-387 for one element of sources, in the order Python
\* evaluates it: source.get (AttributeError unless a dict), source['file']
\* (KeyError), .startswith (AttributeError unless a str).
hls_entry(source) ==
    IF source.t # "dict" THEN [ok |-> FALSE, exc |-> "AttributeError"]
    ELSE IF KeyFile \notin DOMAIN source.v THEN [ok |-> FALSE, exc |-> "KeyError"]
    ELSE IF source.v[KeyFile].t # "str" THEN [ok |-> FALSE, exc |-> "AttributeError"]
    ELSE [ok |-> TRUE, exc |-> None,
          quality |-> DictGet(source, KeyLabel, PyStr(Unknown)),
          url |-> PyStr(hls_url(source.v[KeyFile].v)),
          type |-> DictGet(source, KeyType, PyStr(Unknown)),
          default |-> DictGet(source, KeyDefault, PyBool(FALSE))]

\* The index of the first element whose dict cannot be built, 0 if there is none.
FirstBadEntry(xs) ==
    IF \A i \in 1..Len(xs) : hls_entry(xs[i]).ok THEN 0
    ELSE CHOOSE i \in 1..Len(xs) :
             /\ ~hls_entry(xs[i]).ok
             /\ \A j \in 1..(i - 1) : hls_entry(xs[j]).ok

\* The list comprehension of lines 382-387 over a truthy sources: a list gives
\* its elements, a dict its keys and a str its characters (str has no .get), a
\* number or True is not iterable.
hls_urls_of(sources) ==
    IF sources.t = "list" THEN
        IF FirstBadEntry(sources.v) = 0 THEN
            HlsReturn([i \in 1..Len(sources.v) |->
                          [quality |-> hls_entry(sources.v[i]).quality,
                           url |-> hls_entry(sources.v[i]).url,
                           type |-> hls_entry(sources.v[i]).type,
                           default |-> hls_entry(sources.v[i]).default]])
        ELSE HlsRaises(hls_entry(sources.v[FirstBadEntry(sources.v)]).exc)
    ELSE IF sources.t \in {"dict", "str"} THEN HlsRaises("AttributeError")
    ELSE HlsRaises("TypeError")

\* Lines 377-390 on the sources found.
extract(sources) ==
    IF Falsy(sources) THEN HlsHTTPException(404, "HLS URL not found in response")
    ELSE hls_urls_of(sources)

\* get_hls_url after get_playlist has returned response (lines 368-390).
get_hls_url(response) == extract(find_sources(response.data))

\* ---------------------------------------------------------------------------
\* The service as a state machine
\* ---------------------------------------------------------------------------
\* Handlers run on one event loop and contain no suspension point of their own
\* (requests is blocking and get_fresh_cookies awaits nothing), so one handler
\* is in progress at a time; pc is its position.
VARIABLES
    COOKIES_CACHE,   \* the module-level dict: a function on {"default"} or {"default", "latest"}
    PROXIES,         \* the binding of the module-level name PROXIES
    phase,           \* "boot" before the startup event has run, then "serving"
    pc,              \* position of the /playlist handler in progress, "idle" if none;
                     \* of the call of process_response when it is applied on its own
    fresh_cookies,   \* the fresh_cookies parameter of the request in progress
    locals,          \* response_raw, http_code, error_message of the request in progress
    log,             \* what this request has done so far, in order
    cache_at_start,  \* COOKIES_CACHE when this request began
    last_refresh,    \* the latest call of get_fresh_cookies: input, cache before, result
    reply,           \* what the latest finished handler gave back
    hls,             \* how get_hls_url ended for the request in reply
    applied_to,      \* the argument of process_response when it is applied on its own
    processed_data   \* what that application returned

vars == <<COOKIES_CACHE, PROXIES, phase, pc, fresh_cookies, locals, log,
          cache_at_start, last_refresh, reply, hls, applied_to, processed_data>>

\* The draws of random.choice that are explored: the first and the last index
\* of the pool.
Picks == {1, Len(ROXIES)}

NoUp == UpRaises("none", "")

\* A log entry: "refresh" (get_fresh_cookies returned), "make_request" (the
\* fetcher was called: the Cookie entry of the headers it built, and what the
\* upstream does with a GET made during the call) or "GET" (requests.get was
\* issued: the Cookie header and proxy it carried, what the upstream did and
\* the result make_request returned).
Ev(ev, cookie, proxy, up, out) ==
    [ev |-> ev, cookie |-> cookie, proxy |-> proxy, up |-> up, out |-> out]
Called(ev) == Ev(ev, None, None, NoUp, NoOutcome)

NoEnvelope ==
    [status |-> [code |-> -1, success |-> FALSE, error |-> None],
     data |-> [type |-> "none", data |-> PyNone]]

NoPayload == [type |-> "none", data |-> PyNone]

\* process_response has not been applied on its own.
NotApplied == [t |-> "unset", v |-> 0]

NoReply == [kind |-> "none", envelope |-> NoEnvelope, exc |-> None, cookies_length |-> -1]

NoRefresh ==
    [by |-> "none", home |-> HomeRaises("none"),
     before |-> [k \in {"default"} |-> DefaultCookie], ret |-> None, raised |-> FALSE]

\* The module as imported: COOKIES_CACHE has only 'default' (lines 90-92).
InitCommon ==
    /\ COOKIES_CACHE = [k \in {"default"} |-> DefaultCookie]
    /\ phase = "boot"
    /\ pc = "idle"
    /\ fresh_cookies = FALSE
    /\ locals = NoLocals
    /\ log = <<>>
    /\ cache_at_start = [k \in {"default"} |-> DefaultCookie]
    /\ last_refresh = NoRefresh
    /\ reply = NoReply
    /\ hls = NoHls
    /\ applied_to = NotApplied
    /\ processed_data = NoPayload

\* The module as imported: the source binds ROXIES (line 132) and never PROXIES.
Init ==
    /\ InitCommon
    /\ PROXIES = Unbound

\* One call of get_fresh_cookies by caller `by` against homepage behaviour home.
DoRefresh(by, home) ==
    LET r == get_fresh_cookies(COOKIES_CACHE, home)
    IN  /\ COOKIES_CACHE' = r.cache
        /\ last_refresh' = [by |-> by, home |-> home, before |-> COOKIES_CACHE,
                            ret |-> r.ret, raised |-> r.raised]

\* startup_event (lines 415-421).
Startup ==
    /\ phase = "boot"
    /\ \E home \in HomeBehaviours : DoRefresh("startup", home)
    /\ phase' = "serving"
    /\ UNCHANGED <<PROXIES, pc, fresh_cookies, locals, log, cache_at_start, reply, hls,
                   applied_to, processed_data>>

\* GET /refresh-cookies (lines 271-285).
RefreshCookies ==
    /\ phase = "serving"
    /\ pc = "idle"
    /\ \E home \in HomeBehaviours :
          /\ DoRefresh("refresh_cookies", home)
          /\ reply' = LET r == get_fresh_cookies(COOKIES_CACHE, home)
                      IN  IF r.raised
                          THEN [NoReply EXCEPT !.kind = "refresh_error"]
                          ELSE [NoReply EXCEPT !.kind = "refresh_success",
                                               !.cookies_length = Len(r.ret)]
    /\ UNCHANGED <<PROXIES, phase, pc, fresh_cookies, locals, log, cache_at_start, hls,
                   applied_to, processed_data>>

\* GET /playlist/ arrives (lines 288-297): the handler starts and decides
\* whether the cache must be warmed before the first fetch.
Begin ==
    /\ phase = "serving"
    /\ pc = "idle"
    /\ \E fresh \in BOOLEAN :
          /\ fresh_cookies' = fresh
          /\ pc' = IF needs_warmup(fresh, COOKIES_CACHE) THEN "warm" ELSE "fetch"
    /\ locals' = NoLocals
    /\ log' = <<>>
    /\ cache_at_start' = COOKIES_CACHE
    /\ reply' = NoReply
    /\ hls' = NoHls
    /\ UNCHANGED <<COOKIES_CACHE, PROXIES, phase, last_refresh,
                   applied_to, processed_data>>

\* await get_fresh_cookies() of line 298 (pc = "warm") or of line 308
\* (pc = "refresh"); the fetch that follows is issued when it has returned.
Refresh ==
    /\ pc \in {"warm", "refresh"}
    /\ \E home \in HomeBehaviours :
          DoRefresh(IF pc = "warm" THEN "playlist_warm" ELSE "playlist_retry", home)
    /\ log' = Append(log, Called("refresh"))
    /\ pc' = IF pc = "warm" THEN "fetch" ELSE "refetch"
    /\ UNCHANGED <<PROXIES, phase, fresh_cookies, locals, cache_at_start, reply, hls,
                   applied_to, processed_data>>

\* make_request of line 300 (pc = "fetch", use_fresh_cookies = fresh_cookies) or
\* of line 309 (pc = "refetch", use_fresh_cookies = True), the assignment of the
\* locals, and the retry decision of line 306 after the first one.
Fetch ==
    /\ pc \in {"fetch", "refetch"}
    /\ \E up \in UpBehaviours, pick \in Picks :
          LET r == make_request(IF pc = "fetch" THEN fresh_cookies ELSE TRUE,
                                PROXIES, pick, up)
              called == Append(log, Ev("make_request", r.cookie, None, up, NoOutcome))
              assigned == assign_locals(locals, r.out)
          IN  IF r.raised THEN
                  /\ pc' = "raise"
                  /\ log' = called
                  /\ reply' = [NoReply EXCEPT !.exc = r.exc]
                  /\ UNCHANGED locals
              ELSE
                  /\ locals' = assigned
                  /\ log' = Append(called, Ev("GET", r.cookie, r.proxy, up, r.out))
                  /\ pc' = IF pc = "fetch"
                              /\ should_retry(assigned.http_code, assigned.error_message,
                                              fresh_cookies)
                           THEN "refresh" ELSE "assemble"
                  /\ UNCHANGED reply
    /\ UNCHANGED <<COOKIES_CACHE, PROXIES, phase, fresh_cookies, cache_at_start,
                   last_refresh, hls,
                   applied_to, processed_data>>

\* Lines 314-337 from the locals in hand: the envelope returned, or the
\* exception of process_response, which nothing in get_playlist catches.
handler_reply(response_raw, http_code, error_message, room) ==
    IF process_response(response_raw, room).type = "exception" THEN
        [NoReply EXCEPT !.kind = "exception",
                        !.exc = process_response(response_raw, room).exc]
    ELSE [NoReply EXCEPT !.kind = "envelope",
                         !.envelope = api_response(response_raw, http_code,
                                                   error_message, room)]

\* Lines 366-390 of a request made through /hls: an exception of get_playlist
\* passes through the await of line 366, an envelope goes to the extraction.
hls_reply(playlist_reply) ==
    IF playlist_reply.kind = "exception" THEN HlsRaises(playlist_reply.exc)
    ELSE get_hls_url(playlist_reply.envelope)

\* The handler ends: it returns the envelope of lines 314-337, or an exception
\* leaves it: the one of make_request or the one of process_response (nothing
\* in get_playlist catches either). The stack leaves json.loads one of the
\* rooms of NestingRooms: the frame of get_playlist takes one level of it, and
\* the calls get_playlist has made by then (logger.info of line 295 among them)
\* went as deep as those of process_response, so the stack is long enough for
\* them.
Finish ==
    /\ pc \in {"assemble", "raise"}
    /\ \E room \in RoomsOf(locals.response_raw, MinNesting, MaxNesting - 1) :
          /\ reply' = IF pc = "assemble"
                      THEN handler_reply(locals.response_raw, locals.http_code,
                                         locals.error_message, room)
                      ELSE [reply EXCEPT !.kind = "exception"]
          /\ hls' = hls_reply(IF pc = "assemble"
                              THEN handler_reply(locals.response_raw, locals.http_code,
                                                 locals.error_message, room)
                              ELSE [reply EXCEPT !.kind = "exception"])
    /\ pc' = "idle"
    /\ UNCHANGED <<COOKIES_CACHE, PROXIES, phase, fresh_cookies, locals, log,
                   cache_at_start, last_refresh,
                   applied_to, processed_data>>

Next == Startup \/ RefreshCookies \/ Begin \/ Refresh \/ Fetch \/ Finish

Spec == Init /\ [][Next]_vars

\* ---------------------------------------------------------------------------
\* process_response applied to a body
\* ---------------------------------------------------------------------------
\* The function process_response (lines 225-269) called on its own after the
\* module is imported: the initial states hold the argument, drawn from a
\* bounded set, and the one action is the call.
MaxLen == 3

\* Bytes the short bodies are made of: NUL and DEL (sniff set), TAB, the two
\* bytes of U+00E9, and '[', ']', '1', '"', 'a'.
Alphabet == {0, 127, 9, 195, 169, 91, 93, 49, 34, 97}

ShortBodies == UNION {[1..k -> Alphabet] : k \in 0..MaxLen}

\* An integer literal of one digit more than int() accepts.
BodyLongInt == [i \in 1..(MaxStrDigits + 1) |-> 49]

\* Arrays nested one deeper than the smallest room: b'[[[[[[[[]]]]]]]]'.
BodyDeepArr ==
    [i \in 1..(2 * (MinNesting + 1)) |-> IF i <= MinNesting + 1 THEN 91 ELSE 93]

NamedBodies ==
    { BodyJsonObj, BodyJsonArr, BodyJsonStr, BodyPlain, BodyDenied, BodyNotFound,
      BodyBoth, BodyBinary, BodyBadUtf8, BodyNestedArr, BodySourcesTwo, BodyNested,
      BodySourcesEmpty, BodyNoSources, BodyArrSources, BodySourcesNoFile,
      BodySourcesNumber, BodySourcesType, BodySourcesDefault,
      BodySourcesZero, BodySourcesTiny, BodySourcesInf, BodySourcesNaN,
      BodyLongInt, BodyDeepArr }

\* The arguments explored: None and every short or named body.
Arguments == {PyNone} \cup {PyBytes(b) : b \in ShortBodies \cup NamedBodies}

\* process_response(response_raw) is about to run on a drawn argument.
InitClassify ==
    /\ applied_to \in Arguments
    /\ pc = "process_response"
    /\ processed_data = NoPayload
    /\ COOKIES_CACHE = [k \in {"default"} |-> DefaultCookie]
    /\ PROXIES = Unbound
    /\ phase = "boot"
    /\ fresh_cookies = FALSE
    /\ locals = NoLocals
    /\ log = <<>>
    /\ cache_at_start = [k \in {"default"} |-> DefaultCookie]
    /\ last_refresh = NoRefresh
    /\ reply = NoReply
    /\ hls = NoHls

\* The call: process_response returns the dict of the classified body or an
\* exception leaves it. The stack leaves json.loads one of the rooms of
\* NestingRooms.
Classify ==
    /\ pc = "process_response"
    /\ \E room \in RoomsOf(applied_to, 0, MaxNesting) :
          /\ processed_data' = process_response(applied_to, room)
          /\ pc' = IF process_response(applied_to, room).type = "exception"
                   THEN "raised" ELSE "returned"
    /\ UNCHANGED <<COOKIES_CACHE, PROXIES, phase, fresh_cookies, locals, log,
                   cache_at_start, last_refresh, reply, hls, applied_to>>

NextClassify == Classify

SpecClassify == InitClassify /\ [][NextClassify]_vars

\* ---------------------------------------------------------------------------
\* Properties
\* ---------------------------------------------------------------------------
Count(ev) == Cardinality({i \in 1..Len(log) : log[i].ev = ev})

IsGet(e) == e.ev = "GET"
\* The HTTP GETs of the request, in order.
Gets == SelectSeq(log, IsGet)

\* The kinds of the events of the request, in order.
EvSeq == [i \in 1..Len(log) |-> log[i].ev]

\* A /playlist request has ended and its reply stands.
Finished == pc = "idle" /\ reply.kind \in {"envelope", "exception"}

LatestAtStart == "latest" \in DOMAIN cache_at_start

\* The calls of make_request the request has made: whether there is one, the
\* first and the latest.
HasCalled == \E i \in 1..Len(log) : log[i].ev = "make_request"
FirstCall == CHOOSE i \in 1..Len(log) :
                 /\ log[i].ev = "make_request"
                 /\ \A j \in 1..(i - 1) : log[j].ev # "make_request"
LastCall == CHOOSE i \in 1..Len(log) :
                /\ log[i].ev = "make_request"
                /\ \A j \in (i + 1)..Len(log) : log[j].ev # "make_request"

\* The fetch outcome the upstream's behaviour at the first and at the latest
\* call maps to (lines 176-204).
FirstOutcome == result_of(log[FirstCall].up)
LastOutcome == result_of(log[LastCall].up)

\* The body of the latest outcome as process_response classifies it in
\* get_playlist, and the payload after the reduction of lines 315-317.
Classified == process_response(LastOutcome.response, MaxNesting - 1)
Payload == reduce_first(Classified)

\* The body is free of both failure markers.
NoMarker(content) ==
    ~Contains(content, MarkerNotFound) /\ ~Contains(content, MarkerDenied)

\* C1: every /playlist request performs at most two upstream fetches and then
\* returns an envelope, whatever the upstream does.
C1_TwoFetchesThenEnvelope ==
    /\ Count("GET") <= 2
    /\ Finished => reply.kind = "envelope"

\* C2: with fresh credentials and a first fetch of status >= 400, whatever the
\* cache held at the start, the request makes exactly one refresh and exactly
\* two fetches, the refresh before the retried fetch.
C2_OneRefreshWhateverTheCache ==
    (Finished /\ fresh_cookies /\ HasCalled /\ FirstOutcome.http_code >= 400)
        => /\ Count("refresh") = 1
           /\ Count("GET") = 2
           /\ EvSeq = <<"make_request", "GET", "refresh", "make_request", "GET">>

\* C3: after a retry the envelope is the one of the second fetch alone: status,
\* error, payload and success are those computed from the retried outcome, and
\* a 2xx retry without failure marker gives success with no error whatever the
\* first fetch was. Read on the requests whose first outcome calls for the
\* retry.
C3_EnvelopeFromRetry ==
    (Finished /\ HasCalled
     /\ should_retry(FirstOutcome.http_code, FirstOutcome.error, fresh_cookies))
        => /\ reply.kind = "envelope"
           /\ Len(Gets) = 2
           /\ reply.envelope = api_response(Gets[2].out.response,
                                            Gets[2].out.http_code,
                                            Gets[2].out.error, MaxNesting - 1)
           /\ (/\ Gets[2].out.response.t = "bytes"
               /\ Gets[2].out.error = None
               /\ Gets[2].out.http_code >= 200
               /\ Gets[2].out.http_code < 300
               /\ NoMarker(Gets[2].out.response.v))
                 => /\ reply.envelope.status.success
                    /\ reply.envelope.status.error = None

\* C4: reclassification precedes the retry decision: with fresh credentials, a
\* first fetch answered 200 with a text body holding a failure marker leads to
\* one refresh and one retried fetch before the envelope is returned.
C4_ReclassifyThenRetry ==
    (Finished /\ fresh_cookies /\ HasCalled
     /\ FirstOutcome.http_code = 200
     /\ process_response(FirstOutcome.response, MaxNesting - 1).type = "text"
     /\ ~NoMarker(process_response(FirstOutcome.response, MaxNesting - 1).data.v))
        => /\ reply.kind = "envelope"
           /\ Count("make_request") = 2
           /\ \E i \in (FirstCall + 1)..(LastCall - 1) : log[i].ev = "refresh"

\* C5: an outcome of status 200 whose body classifies as text gives status 404,
\* an error message and no success when the text holds "404 Not Found", and
\* otherwise status 403, an error message and no success when it holds
\* "Access denied".
C5_MarkersRemapped ==
    (Finished /\ HasCalled /\ LastOutcome.http_code = 200 /\ Classified.type = "text"
     /\ ~NoMarker(Classified.data.v))
        => /\ reply.kind = "envelope"
           /\ reply.envelope.status.code
                = (IF Contains(Classified.data.v, MarkerNotFound) THEN 404 ELSE 403)
           /\ Truthy(reply.envelope.status.error)
           /\ ~reply.envelope.status.success

Mapped(up, out) ==
    IF up.kind = "response" THEN
        out.http_code = up.status /\ out.response = PyBytes(up.content) /\ out.error = None
    ELSE IF up.kind \in {"Timeout", "ReadTimeout", "ConnectTimeout"} THEN
        out.http_code = 408 /\ out.error = "Request timed out" /\ out.response = PyNone
    ELSE IF up.kind = "ConnectionError" THEN
        out.http_code = 503 /\ out.error # None /\ out.response = PyNone
    ELSE out.http_code = 0 /\ out.error # None /\ out.response = PyNone

\* C7: every call of the fetcher performs exactly one HTTP GET and returns the
\* FetchOutcome the transport behaviour maps to.
C7_OneGetMappedOutcome ==
    \A i \in 1..Len(log) :
        log[i].ev = "make_request"
            => /\ i < Len(log)
               /\ log[i + 1].ev = "GET"
               /\ Mapped(log[i + 1].up, log[i + 1].out)

Pool == {ROXIES[i] : i \in 1..Len(ROXIES)}

\* C8: the proxy chooser always returns a member of the pool, so no call of the
\* fetcher propagates an exception to the handler.
C8_ChooserNeverRaises ==
    /\ pc # "raise"
    /\ reply.kind # "exception"
    /\ \A i \in 1..Len(log) : log[i].ev = "GET" => log[i].proxy \in Pool

\* The homepage visit of a refresh did not answer 200.
RefreshFailed(home) == ~(home.kind = "response" /\ home.status = 200)

\* C9: a refresh whose homepage visit fails or answers a status other than 200
\* leaves the cache (and so `latest`, absent or not) as it was, returns the
\* default credential and does not raise, whoever called it; a request that
\* called it goes on to its fetch.
C9_FailedRefreshKeepsCache ==
    (last_refresh.by # "none" /\ RefreshFailed(last_refresh.home))
        => /\ COOKIES_CACHE = last_refresh.before
           /\ last_refresh.ret = DefaultCookie
           /\ ~last_refresh.raised
           /\ (Len(log) > 0 /\ log[Len(log)].ev = "refresh")
                 => pc \in {"fetch", "refetch"}

\* The warm-up refresh of a request failed: `latest` is still absent and the
\* request goes on to its first fetch.
C9_Witness ==
    /\ last_refresh.by = "playlist_warm"
    /\ RefreshFailed(last_refresh.home)
    /\ "latest" \notin DOMAIN COOKIES_CACHE
    /\ pc = "fetch"

\* C10: in every step the `default` slot keeps its startup value, a populated
\* `latest` slot stays populated, and the cache changes only by a refresh that
\* got HTTP 200, which writes the string it returns into `latest`.
C10_CacheLifecycle ==
    [][/\ "default" \in DOMAIN COOKIES_CACHE'
       /\ COOKIES_CACHE'["default"] = DefaultCookie
       /\ ("latest" \in DOMAIN COOKIES_CACHE => "latest" \in DOMAIN COOKIES_CACHE')
       /\ (COOKIES_CACHE' # COOKIES_CACHE
             => /\ last_refresh'.home.kind = "response"
                /\ last_refresh'.home.status = 200
                /\ last_refresh'.before = COOKIES_CACHE
                /\ COOKIES_CACHE' = [k \in {"default", "latest"} |->
                                        IF k = "latest" THEN last_refresh'.ret
                                        ELSE DefaultCookie])]_vars

\* A successful refresh has overwritten an earlier `latest` with another value.
C10_Witness ==
    /\ last_refresh.home.kind = "response" /\ last_refresh.home.status = 200
    /\ "latest" \in DOMAIN last_refresh.before
    /\ "latest" \in DOMAIN COOKIES_CACHE
    /\ COOKIES_CACHE["latest"] # last_refresh.before["latest"]
    /\ COOKIES_CACHE["default"] = DefaultCookie

\* The use_fresh_cookies argument of the latest call of make_request: the
\* handler's fresh_cookies for the first one, True for the retry.
LastUseFresh == IF Count("make_request") <= 1 THEN fresh_cookies ELSE TRUE

\* C11: every upstream fetch carries a Cookie header taken from the cache: the
\* `default` slot when the call does not use fresh credentials, the current
\* `latest` slot when it does and `latest` is populated (the retried fetch
\* after a refresh included). Read on the headers make_request has built when
\* it goes on to choose the proxy.
C11_CookieFromCache ==
    (pc \in {"raise", "refresh", "assemble"}
     /\ Len(log) > 0 /\ log[Len(log)].ev \in {"make_request", "GET"})
        => IF ~LastUseFresh
           THEN log[Len(log)].cookie = COOKIES_CACHE["default"]
           ELSE "latest" \in DOMAIN COOKIES_CACHE
                  => log[Len(log)].cookie = COOKIES_CACHE["latest"]

\* What the request did before it first called the fetcher.
BeforeFirstFetch == IF HasCalled THEN SubSeq(EvSeq, 1, FirstCall - 1) ELSE EvSeq

\* C12: a request with fresh credentials that starts without `latest` makes
\* exactly one refresh, which has returned before the first fetch is issued; one
\* that starts with `latest` present makes no refresh before its first fetch.
C12_WarmUpBeforeFirstFetch ==
    fresh_cookies
        => /\ pc = "warm" => (~LatestAtStart /\ log = <<>>)
           /\ pc # "warm"
                => BeforeFirstFetch = (IF LatestAtStart THEN <<>> ELSE <<"refresh">>)

\* A request that began without `latest` has warmed the cache and then called
\* make_request for its first fetch.
C12_Witness ==
    /\ fresh_cookies /\ ~LatestAtStart
    /\ HasCalled
    /\ EvSeq = <<"refresh", "make_request">>

\* base64.b64decode of a str, to read back what the classifier encoded: the
\* value of a character of the standard alphabet, -1 for any other.
B64Val(c) ==
    IF c >= 65 /\ c <= 90 THEN c - 65
    ELSE IF c >= 97 /\ c <= 122 THEN c - 71
    ELSE IF c >= 48 /\ c <= 57 THEN c + 4
    ELSE IF c = 43 THEN 62
    ELSE IF c = 47 THEN 63
    ELSE -1

\* Characters outside the alphabet are discarded before decoding.
IsB64(c) == B64Val(c) # -1 \/ c = 61

B64Fail == [ok |-> FALSE, bytes |-> <<>>]

B64Prepend(bs, rest) ==
    IF rest.ok THEN [ok |-> TRUE, bytes |-> bs \o rest.bytes] ELSE B64Fail

\* The groups of four characters from s[i] on; '=' may only pad the last one.
\* ok = FALSE stands for binascii.Error.
RECURSIVE B64DecodeFrom(_, _)
B64DecodeFrom(s, i) ==
    IF i > Len(s) THEN [ok |-> TRUE, bytes |-> <<>>]
    ELSE IF i + 3 > Len(s) THEN B64Fail
    ELSE IF B64Val(s[i]) = -1 \/ B64Val(s[i + 1]) = -1 THEN B64Fail
    ELSE IF s[i + 2] = 61 THEN
        IF s[i + 3] = 61 /\ i + 3 = Len(s)
        THEN [ok |-> TRUE,
              bytes |-> <<B64Val(s[i]) * 4 + (B64Val(s[i + 1]) \div 16)>>]
        ELSE B64Fail
    ELSE IF s[i + 3] = 61 THEN
        IF i + 3 = Len(s)
        THEN [ok |-> TRUE,
              bytes |-> <<B64Val(s[i]) * 4 + (B64Val(s[i + 1]) \div 16),
                          (B64Val(s[i + 1]) % 16) * 16 + (B64Val(s[i + 2]) \div 4)>>]
        ELSE B64Fail
    ELSE B64Prepend(<<B64Val(s[i]) * 4 + (B64Val(s[i + 1]) \div 16),
                      (B64Val(s[i + 1]) % 16) * 16 + (B64Val(s[i + 2]) \div 4),
                      (B64Val(s[i + 2]) % 4) * 64 + B64Val(s[i + 3])>>,
                    B64DecodeFrom(s, i + 4))

b64decode(s) == B64DecodeFrom(SelectSeq(s, IsB64), 1)

\* The raw body process_response was applied to, <<>> when it was None.
RawBody == IF applied_to.t = "bytes" THEN applied_to.v ELSE <<>>

\* The call of process_response is over: it returned or it raised.
Applied == pc \in {"returned", "raised"}

\* The control bytes the specification names: 0x00-0x08, 0x0B, 0x0C, 0x0E-0x1F, 0x7F.
ClaimedSniffSet == (0..8) \cup {11, 12} \cup (14..31) \cup {127}

JsonSamples ==
    { <<49>>, <<49, 49>>, <<91, 93>>, <<91, 49, 93>>, <<34, 34>>, <<34, 97, 34>>,
      <<34, 91, 34>>, <<9, 49>>, <<49, 9>>, <<91, 9, 93>>,
      BodyJsonObj, BodyJsonArr, BodyJsonStr, BodyNestedArr, BodyNested,
      BodySourcesEmpty, BodyNoSources, BodyLongInt, BodyDeepArr }

\* C14: classification gives exactly one variant, decided in this order: no
\* body or an empty one is text ""; a body with a sniff-set byte is binary; a
\* body that is not UTF-8 is binary of format application/octet-stream; decoded
\* text that parses as JSON is json with the parsed value; anything else is
\* text with the decoded string. Every JSON document in UTF-8 without sniff-set
\* bytes is json, and no body leaves the classifier with an exception.
C14_ClassificationOrder ==
    Applied
        => /\ processed_data.type \in {"text", "json", "binary"}
           /\ DOMAIN processed_data
                = (IF processed_data.type = "binary"
                   THEN {"type", "format", "data"} ELSE {"type", "data"})
           /\ IF Len(RawBody) = 0 THEN
                  processed_data = [type |-> "text", data |-> PyStr(<<>>)]
              ELSE IF \E i \in 1..Len(RawBody) : RawBody[i] \in ClaimedSniffSet THEN
                  processed_data.type = "binary"
              ELSE IF ~Utf8Decode(RawBody).ok THEN
                  /\ processed_data.type = "binary"
                  /\ processed_data.format = "application/octet-stream"
              ELSE IF json_loads(Utf8Decode(RawBody).str, MaxNesting).ok THEN
                  processed_data
                    = [type |-> "json",
                       data |-> json_loads(Utf8Decode(RawBody).str, MaxNesting).val]
              ELSE processed_data
                     = [type |-> "text", data |-> PyStr(Utf8Decode(RawBody).str)]
           /\ RawBody \in JsonSamples => processed_data.type = "json"

\* C15: a json payload whose value is an array with at least one element is
\* replaced by that array's first element, as it stands (a nested array is not
\* reduced again); an empty array, any other json value, text and binary
\* payloads are unchanged; the envelope returned carries this payload.
C15_FirstElementOnce ==
    (Finished /\ HasCalled /\ Classified.type # "exception")
        => /\ reply.kind = "envelope"
           /\ reply.envelope.data
                = (IF Classified.type = "json" /\ Classified.data.t = "list"
                      /\ Len(Classified.data.v) >= 1
                   THEN [type |-> "json", data |-> Classified.data.v[1]]
                   ELSE Classified)

\* The payload has no usable `sources` array: it is text or binary, a json
\* value that is not an object, an object without the key, or one whose
\* `sources` is an empty array.
NoUsableSources ==
    \/ Payload.type \in {"text", "binary"}
    \/ /\ Payload.type = "json"
       /\ \/ Payload.data.t # "dict"
          \/ KeySources \notin DOMAIN Payload.data.v
          \/ Payload.data.v[KeySources] = PyList(<<>>)

\* C16: for a payload that has no usable `sources` array /hls ends with
\* HTTPException 404 and never with another exception.
C16_NoSourcesIs404 ==
    (Finished /\ HasCalled /\ NoUsableSources)
        => /\ hls.kind = "HTTPException"
           /\ hls.status_code = 404

\* The `sources` of a json object payload, and whether it is a non-empty array
\* of objects that each have a str `file`.
PayloadSources == Payload.data.v[KeySources]
UsableSources ==
    /\ Payload.type = "json"
    /\ Payload.data.t = "dict"
    /\ KeySources \in DOMAIN Payload.data.v
    /\ PayloadSources.t = "list"
    /\ Len(PayloadSources.v) >= 1
    /\ \A i \in 1..Len(PayloadSources.v) :
          /\ PayloadSources.v[i].t = "dict"
          /\ KeyFile \in DOMAIN PayloadSources.v[i].v
          /\ PayloadSources.v[i].v[KeyFile].t = "str"

\* "https://netfree2.cc", "http" and "Unknown" as the specification names them.
UpstreamOrigin == <<104, 116, 116, 112, 115, 58, 47, 47, 110, 101, 116, 102, 114, 101, 101, 50, 46, 99, 99>>
BeginsWithHttp(file) == Len(file) >= 4 /\ SubSeq(file, 1, 4) = <<104, 116, 116, 112>>
UnknownStr == PyStr(<<85, 110, 107, 110, 111, 119, 110>>)

\* The value of key in the entry, or the default when the key is missing.
OrDefault(entry, key, default) ==
    IF key \in DOMAIN entry.v THEN entry.v[key] ELSE default

\* C17: for a json payload whose `sources` is a non-empty array of entries that
\* each have a `file`, /hls returns one descriptor per entry, in the order of
\* the entries; the url is `file` itself when it begins with "http" and the
\* upstream origin followed by `file` otherwise; quality is the entry's label
\* or "Unknown", type its type or "Unknown", default its default or false.
C17_DescriptorPerEntry ==
    (Finished /\ HasCalled /\ UsableSources)
        => /\ hls.kind = "return"
           /\ Len(hls.hls_urls) = Len(PayloadSources.v)
           /\ \A i \in 1..Len(PayloadSources.v) :
                 /\ hls.hls_urls[i].url
                      = (IF BeginsWithHttp(PayloadSources.v[i].v[KeyFile].v)
                         THEN PayloadSources.v[i].v[KeyFile]
                         ELSE PyStr(UpstreamOrigin \o PayloadSources.v[i].v[KeyFile].v))
                 /\ hls.hls_urls[i].quality
                      = OrDefault(PayloadSources.v[i], KeyLabel, UnknownStr)
                 /\ hls.hls_urls[i].type
                      = OrDefault(PayloadSources.v[i], KeyType, UnknownStr)
                 /\ hls.hls_urls[i].default
                      = OrDefault(PayloadSources.v[i], KeyDefault, PyBool(FALSE))

\* The cookie strings a successful refresh can produce.
ProducedStrings ==
    {JoinCookies(h.cookies) : h \in {x \in HomeBehaviours : ~RefreshFailed(x)}}

\* C18: in whatever order requests and refreshes run, `latest`, when populated,
\* is the whole cookie string of one successful refresh; once the refresh that
\* ran last has succeeded `latest` is its string; and a refresh that fails
\* leaves a populated `latest` with the value it had.
C18_LastWriterWins ==
    /\ [](/\ "latest" \in DOMAIN COOKIES_CACHE
               => COOKIES_CACHE["latest"] \in ProducedStrings
          /\ (last_refresh.by # "none" /\ ~RefreshFailed(last_refresh.home))
               => /\ "latest" \in DOMAIN COOKIES_CACHE
                  /\ COOKIES_CACHE["latest"] = JoinCookies(last_refresh.home.cookies))
    /\ [][("latest" \in DOMAIN COOKIES_CACHE /\ RefreshFailed(last_refresh'.home))
             => /\ "latest" \in DOMAIN COOKIES_CACHE'
                /\ COOKIES_CACHE'["latest"] = COOKIES_CACHE["latest"]]_vars

\* /refresh-cookies has failed after an earlier refresh had stored the string
\* of two cookies: `latest` still holds that string.
C18_Witness ==
    /\ last_refresh.by = "refresh_cookies"
    /\ RefreshFailed(last_refresh.home)
    /\ "latest" \in DOMAIN last_refresh.before
    /\ "latest" \in DOMAIN COOKIES_CACHE
    /\ COOKIES_CACHE["latest"] = "sid=b; t=1"

\* The json value of the payload is an object that has no `sources` of its own
\* and whose `data` key holds an object with a non-empty `sources` array of
\* entries that each have a str `file`.
NestedSources == Payload.data.v[KeyData].v[KeySources]
NestedShape ==
    /\ Payload.type = "json"
    /\ Payload.data.t = "dict"
    /\ KeySources \notin DOMAIN Payload.data.v
    /\ KeyData \in DOMAIN Payload.data.v
    /\ Payload.data.v[KeyData].t = "dict"
    /\ KeySources \in DOMAIN Payload.data.v[KeyData].v
    /\ NestedSources.t = "list"
    /\ Len(NestedSources.v) >= 1
    /\ \A i \in 1..Len(NestedSources.v) :
          /\ NestedSources.v[i].t = "dict"
          /\ KeyFile \in DOMAIN NestedSources.v[i].v
          /\ NestedSources.v[i].v[KeyFile].t = "str"

\* C19: /hls returns the descriptors, not a 404, both when `sources` is a key
\* of the json value itself and when it is a key of the object under the
\* value's `data` key.
C19_BothShapesFound ==
    (Finished /\ HasCalled)
        => /\ UsableSources
                => (hls.kind = "return" /\ Len(hls.hls_urls) = Len(PayloadSources.v))
           /\ NestedShape
                => (hls.kind = "return" /\ Len(hls.hls_urls) = Len(NestedSources.v))

\* C20: a request without fresh credentials, whatever the upstream does, makes
\* exactly one fetch and no refresh, leaves both slots of the cache as they
\* were, and returns the envelope of that one fetch's outcome (so nothing of
\* `latest` or of another request enters it).
C20_StoredCredentialsOneFetch ==
    (Finished /\ ~fresh_cookies)
        => /\ Count("GET") = 1
           /\ Count("make_request") = 1
           /\ Count("refresh") = 0
           /\ COOKIES_CACHE = cache_at_start
           /\ reply.kind = "envelope"
           /\ reply.envelope = api_response(Gets[1].out.response,
                                            Gets[1].out.http_code,
                                            Gets[1].out.error, MaxNesting)

====
